---- MODULE Spec2Model ----
(***************************************************************************)
(* Grading engine of AutoGradePro (performance_test/grading_simulator.py). *)
(* A Python str is a sequence of one-character strings; a Python float is  *)
(* an exact rational [n, d] with d > 0; a returned dict is a record with   *)
(* the same keys; a raised exception is the record [raised |-> <type>].    *)
(***************************************************************************)
EXTENDS Integers, Sequences, FiniteSets, TLC

VARIABLES pc, call, result, oracle_requests, oracle_exchange,
          submissions, max_workers, tasks, frames, futures, results,
          text, lines_done, answers, extract_stage,
          sheet, sheet_pos, total_score, max_score, sheet_stage

poolVars == <<submissions, max_workers, tasks, frames, futures, results>>
extractVars == <<text, lines_done, answers, extract_stage>>
sheetVars == <<sheet, sheet_pos, total_score, max_score, sheet_stage>>
gradingVars == <<pc, call, result, oracle_requests, oracle_exchange>>
vars == <<gradingVars, poolVars, extractVars, sheetVars>>

(***************************************************************************)
(* Bounds of the explored inputs.                                          *)
(***************************************************************************)
MaxWordLen == 3
MaxListStrLen == 3
MaxItems == 3
MaxNumLen == 2
MaxReplyLen == 3

\* every str of length <= n over the characters chars
Strings(chars, n) == UNION {[1..k -> chars] : k \in 0..n}

(***************************************************************************)
(* Exact rationals standing for Python floats.                             *)
(***************************************************************************)
RECURSIVE GCD(_, _)
GCD(a, b) == IF b = 0 THEN a ELSE GCD(b, a % b)

\* n / d in lowest terms
Rat(n, d) ==
    LET g == GCD(IF n < 0 THEN -n ELSE n, d)
    IN [n |-> n \div g, d |-> d \div g]
RatInt(k) == Rat(k, 1)
\* a <= b: by the integer parts, then by the fractional parts
RatLE(a, b) ==
    LET fa == a.n \div a.d
        fb == b.n \div b.d
    IN IF fa # fb THEN fa < fb
       ELSE (a.n - fa * a.d) * b.d <= (b.n - fb * b.d) * a.d
RatLT(a, b) == ~RatLE(b, a)
RatEq(a, b) == RatLE(a, b) /\ RatLE(b, a)
RatAdd(a, b) == Rat(a.n * b.d + b.n * a.d, a.d * b.d)
RatSub(a, b) == Rat(a.n * b.d - b.n * a.d, a.d * b.d)
RatMul(a, b) == Rat(a.n * b.n, a.d * b.d)
RatAbs(a) == Rat(IF a.n < 0 THEN -a.n ELSE a.n, a.d)
RatMax(a, b) == IF RatLE(a, b) THEN b ELSE a

(***************************************************************************)
(* str primitives: \s, str.strip, str.lower                                *)
(***************************************************************************)
IsSpace(c) == c \in {" ", "\t", "\n"}
IsDigit(c) == c \in {"0", "1", "2", "3", "4", "5", "6", "7", "8", "9"}
IsLetter(c) == c \in {"a", "b", "e", "r", "t", "u", "x", "A", "B", "E", "R", "T", "U", "X"}
\* \w of the re module: letters, digits and the underscore
IsWordChar(c) == IsLetter(c) \/ IsDigit(c) \/ c = "_"

RECURSIVE lstrip(_)
lstrip(s) == IF s # <<>> /\ IsSpace(Head(s)) THEN lstrip(Tail(s)) ELSE s

RECURSIVE rstrip(_)
rstrip(s) ==
    IF s # <<>> /\ IsSpace(s[Len(s)]) THEN rstrip(SubSeq(s, 1, Len(s) - 1)) ELSE s

\* a strip that forgets the trailing whitespace
strip_leading_only(s) == lstrip(s)

strip(s) == rstrip(lstrip(s))

lower_char(c) ==
    CASE c = "A" -> "a" [] c = "B" -> "b" [] c = "E" -> "e" [] c = "R" -> "r"
      [] c = "T" -> "t" [] c = "U" -> "u" [] c = "X" -> "x" [] OTHER -> c

\* a lower that leaves the text as written
lower_unchanged(s) == s

lower(s) == [i \in 1..Len(s) |-> lower_char(s[i])]

(***************************************************************************)
(* Results                                                                 *)
(***************************************************************************)
NoCall == [fn |-> "none"]
NoResult == [none |-> TRUE]
NoExchange == [none |-> TRUE]
Raise(exc) == [raised |-> exc]
Raised(r) == "raised" \in DOMAIN r
Returned(r) == "is_correct" \in DOMAIN r

Zero == RatInt(0)
Hundred == RatInt(100)

(***************************************************************************)
(* grade_one_word                                                          *)
(***************************************************************************)
grade_one_word(student_answer, correct_answer, case_sensitive) ==
    IF student_answer = <<>> \/ correct_answer = <<>>
    THEN [is_correct |-> FALSE, score_percentage |-> Zero,
          explanation |-> "Missing answer"]
    ELSE LET student_ans == IF case_sensitive THEN strip(student_answer)
                            ELSE lower(strip(student_answer))
             correct_ans == IF case_sensitive THEN strip(correct_answer)
                            ELSE lower(strip(correct_answer))
             is_correct == student_ans = correct_ans
         IN [is_correct |-> is_correct,
             score_percentage |-> IF is_correct THEN Hundred ELSE Zero,
             explanation |-> IF is_correct THEN "Exact match"
                             ELSE "Not an exact match"]

(***************************************************************************)
(* _normalize_list_items                                                   *)
(***************************************************************************)
\* [-*] of the marker patterns (the third bullet of the class is not ASCII)
IsBullet(c) == c \in {"-", "*"}
\* a splitter that knows the comma only
IsComma(c) == c = ","
\* [,;\t\n] of the split pattern
IsListDelim(c) == c \in {",", ";", "\t", "\n"}

\* greedy \s* from index i: the index of the first character it leaves
RECURSIVE SkipSpaces(_, _)
SkipSpaces(s, i) == IF i <= Len(s) /\ IsSpace(s[i]) THEN SkipSpaces(s, i + 1) ELSE i

\* greedy \d* from index i
RECURSIVE SkipDigits(_, _)
SkipDigits(s, i) == IF i <= Len(s) /\ IsDigit(s[i]) THEN SkipDigits(s, i + 1) ELSE i

\* greedy [,;\t\n]* from index i
RECURSIVE SkipDelims(_, _)
SkipDelims(s, i) == IF i <= Len(s) /\ IsListDelim(s[i]) THEN SkipDelims(s, i + 1) ELSE i

\* (?:[-*]|\d+\.)\s+ matched at index j: the index after the match, 0 if none
MarkerEnd(s, j) ==
    LET k == SkipDigits(s, j)
        afterMark == IF j <= Len(s) /\ IsBullet(s[j]) THEN j + 1
                     ELSE IF k > j /\ k <= Len(s) /\ s[k] = "." THEN k + 1
                     ELSE 0
        e == IF afterMark = 0 THEN 0 ELSE SkipSpaces(s, afterMark)
    IN IF afterMark # 0 /\ e > afterMark THEN e ELSE 0

\* re.search(r'\n\s*[-*]\s+', '\n' + answer) or re.search(r'\n\s*\d+\.\s+', ...)
HasListMarkers(answer) ==
    LET t == <<"\n">> \o answer
    IN \E i \in 1..Len(t) : t[i] = "\n" /\ MarkerEnd(t, SkipSpaces(t, i + 1)) # 0

\* answer.split('\n')
RECURSIVE SplitLines(_, _, _)
SplitLines(s, i, cur) ==
    IF i > Len(s) THEN <<cur>>
    ELSE IF s[i] = "\n" THEN <<cur>> \o SplitLines(s, i + 1, <<>>)
    ELSE SplitLines(s, i + 1, Append(cur, s[i]))

\* re.match(r'\s*(?:[-*]|\d+\.)\s+(.*)', line): group(1).strip(), <<>> if no match
MarkedItem(line) ==
    LET e == MarkerEnd(line, SkipSpaces(line, 1))
    IN IF e = 0 THEN <<>> ELSE strip(SubSeq(line, e, Len(line)))

RECURSIVE MarkedItems(_)
MarkedItems(lines) ==
    IF lines = <<>> THEN <<>>
    ELSE (IF MarkedItem(Head(lines)) # <<>> THEN <<MarkedItem(Head(lines))>> ELSE <<>>)
         \o MarkedItems(Tail(lines))

\* re.split(r'[,;\t\n]+', answer)
RECURSIVE re_split(_, _, _)
re_split(s, i, cur) ==
    IF i > Len(s) THEN <<cur>>
    ELSE IF IsListDelim(s[i]) THEN <<cur>> \o re_split(s, SkipDelims(s, i), <<>>)
    ELSE re_split(s, i + 1, Append(cur, s[i]))

\* re.sub(r'^\s*[-*]\s+|^\s*\d+\.\s+', '', item)
RemoveLeadingMarker(item) ==
    LET e == MarkerEnd(item, SkipSpaces(item, 1))
    IN IF e = 0 THEN item ELSE SubSeq(item, e, Len(item))

\* re.sub(r'\s+', ' ', s)
RECURSIVE CollapseSpaces(_, _)
CollapseSpaces(s, i) ==
    IF i > Len(s) THEN <<>>
    ELSE IF IsSpace(s[i]) THEN <<" ">> \o CollapseSpaces(s, SkipSpaces(s, i))
    ELSE <<s[i]>> \o CollapseSpaces(s, i + 1)

CleanItem(item) == strip(CollapseSpaces(RemoveLeadingMarker(item), 1))

RECURSIVE CleanItems(_)
CleanItems(items) ==
    IF items = <<>> THEN <<>>
    ELSE (IF CleanItem(Head(items)) # <<>> THEN <<CleanItem(Head(items))>> ELSE <<>>)
         \o CleanItems(Tail(items))

LowerAll(items, case_sensitive) ==
    IF case_sensitive THEN items ELSE [i \in 1..Len(items) |-> lower(items[i])]

_normalize_list_items(answer, case_sensitive) ==
    LET marked == IF HasListMarkers(answer)
                  THEN MarkedItems(SplitLines(answer, 1, <<>>)) ELSE <<>>
    IN IF marked # <<>> THEN LowerAll(marked, case_sensitive)
       ELSE LowerAll(CleanItems(re_split(answer, 1, <<>>)), case_sensitive)

(***************************************************************************)
(* _longest_common_subsequence                                             *)
(***************************************************************************)
Max2(a, b) == IF a >= b THEN a ELSE b

\* a matcher that counts the positions where the two lists agree
positional_matches(list1, list2) == Cardinality({i \in 1..Len(list1) : i <= Len(list2) /\ list1[i] = list2[i]})
_longest_common_subsequence(list1, list2) ==
    LET m == Len(list1)
        n == Len(list2)
        dp[i \in 0..m, j \in 0..n] ==
            IF i = 0 \/ j = 0 THEN 0
            ELSE IF list1[i] = list2[j] THEN dp[i - 1, j - 1] + 1
            ELSE Max2(dp[i - 1, j], dp[i, j - 1])
    IN dp[m, n]

(***************************************************************************)
(* grade_list.  An answer is [kind |-> "str", v |-> <characters>] or       *)
(* [kind |-> "list", v |-> <items>], each item a str.                      *)
(***************************************************************************)
NormalizeAnswer(answer, case_sensitive) ==
    IF answer.kind = "str" THEN _normalize_list_items(answer.v, case_sensitive)
    ELSE LowerAll([i \in 1..Len(answer.v) |-> strip(answer.v[i])], case_sensitive)

ToSet(list) == {list[i] : i \in 1..Len(list)}

\* the test written as score > 0.0
ScoreIsPositive(score) == RatLT(Zero, score)

\* score >= 100.0
ScoreIsFull(score) == RatLE(Hundred, score)

\* (count / total) * 100, the division raising on a zero divisor
PercentOf(count, total) == Rat(count * 100, total)

\* a grader that compares the ordered lists as sets
SameTokenSet(student_list, correct_list) == ToSet(student_list) = ToSet(correct_list)
\* `if student_list == correct_list:` of the order-sensitive branch
SameTokenList(student_list, correct_list) == student_list = correct_list

grade_list(student_answer, correct_answer, order_sensitive, partial_matching, case_sensitive) ==
    IF student_answer.v = <<>> \/ correct_answer.v = <<>>
    THEN [is_correct |-> FALSE, score_percentage |-> Zero, matched_items |-> <<>>,
          explanation |-> "Missing answer"]
    ELSE
    LET student_list == NormalizeAnswer(student_answer, case_sensitive)
        correct_list == NormalizeAnswer(correct_answer, case_sensitive)
        student_set == ToSet(student_list)
        correct_set == ToSet(correct_list)
        matched == student_set \cap correct_set
    IN IF order_sensitive
       THEN IF SameTokenList(student_list, correct_list)
            THEN [is_correct |-> TRUE, score_percentage |-> Hundred,
                  matched_items |-> student_list,
                  explanation |-> "Perfect match with correct order"]
            ELSE IF partial_matching
            THEN IF Len(correct_list) = 0 THEN Raise("ZeroDivisionError")
                 ELSE LET score == PercentOf(
                              _longest_common_subsequence(student_list, correct_list),
                              Len(correct_list))
                      IN [is_correct |-> ScoreIsFull(score), score_percentage |-> score,
                          matched_items |-> <<>>,
                          explanation |-> "Partial match (order matters)"]
            ELSE [is_correct |-> FALSE, score_percentage |-> Zero,
                  matched_items |-> <<>>,
                  explanation |-> "Lists don't match (order matters)"]
       ELSE IF student_set = correct_set
            THEN [is_correct |-> TRUE, score_percentage |-> Hundred,
                  matched_items |-> matched,
                  explanation |-> "Perfect match (all items present)"]
            ELSE IF partial_matching
            THEN IF Cardinality(correct_set) = 0 THEN Raise("ZeroDivisionError")
                 ELSE LET score == PercentOf(Cardinality(matched),
                                             Cardinality(correct_set))
                      IN [is_correct |-> ScoreIsFull(score), score_percentage |-> score,
                          matched_items |-> matched,
                          explanation |-> "Partial match: items correct"]
            ELSE [is_correct |-> FALSE, score_percentage |-> Zero,
                  matched_items |-> matched,
                  explanation |-> "Lists don't match"]

ListChars == {"a", "b", ","}
ListItems == {<<"a">>, <<"b">>, <<" ", "A">>}
ListSamples ==
    {<<"2", ",", "3", ",", "5", ",", "7", ",", "1", "1">>,
     <<"2", ";", " ", "3", ";", " ", "5", ";", " ", "7", ";", " ", "1", "1">>,
     <<"2", ",", " ", "3", ",", " ", "5", ",", " ", "7", ",", " ", "1", "1">>,
     <<"-", ",", "b">>,
     <<"a", ",", " ", "-", " ", "b">>,
     <<"A", " ", ",", "b">>,
     <<"a", "\n", "b">>,
     <<"a", ";", "b", "\t", "b">>}
ListAnswers(kind) ==
    IF kind = "str"
    THEN {[kind |-> "str", v |-> s] : s \in Strings(ListChars, MaxListStrLen) \cup ListSamples}
    ELSE {[kind |-> "list", v |-> s] : s \in Strings(ListItems, MaxItems)}

(***************************************************************************)
(* grade_numerical                                                         *)
(***************************************************************************)
\* a grader that removes the spaces and keeps the commas
CleanNumberSpacesOnly(s) == SelectSeq(s, LAMBDA ch : ch # " ")
\* str(x).replace(',', '').replace(' ', '')
RECURSIVE CleanNumber(_)
CleanNumber(s) ==
    IF s = <<>> THEN <<>>
    ELSE IF Head(s) \in {",", " "} THEN CleanNumber(Tail(s))
    ELSE <<Head(s)>> \o CleanNumber(Tail(s))

DigitValue(c) ==
    CASE c = "0" -> 0 [] c = "1" -> 1 [] c = "2" -> 2 [] c = "3" -> 3 [] c = "4" -> 4
      [] c = "5" -> 5 [] c = "6" -> 6 [] c = "7" -> 7 [] c = "8" -> 8 [] c = "9" -> 9

\* the integer written by the digits s
RECURSIVE DigitsValue(_)
DigitsValue(s) ==
    IF s = <<>> THEN 0
    ELSE DigitsValue(SubSeq(s, 1, Len(s) - 1)) * 10 + DigitValue(s[Len(s)])

RECURSIVE Pow10(_)
Pow10(k) == IF k = 0 THEN 1 ELSE 10 * Pow10(k - 1)

\* float(s) on the decimal forms [+-]?(\d+\.?\d*|\.\d+) with surrounding
\* whitespace ignored; anything else is a ValueError (ok = FALSE).  The explored
\* characters write no exponent, underscore, inf or nan.
ParseFloat(s) ==
    LET t == strip(s)
        signed == t # <<>> /\ t[1] \in {"-", "+"}
        body == IF signed THEN Tail(t) ELSE t
        i == SkipDigits(body, 1)
        hasPoint == i <= Len(body) /\ body[i] = "."
        j == IF hasPoint THEN SkipDigits(body, i + 1) ELSE i
        intDigits == SubSeq(body, 1, i - 1)
        fracDigits == IF hasPoint THEN SubSeq(body, i + 1, j - 1) ELSE <<>>
        wellFormed == j = Len(body) + 1 /\ Len(intDigits) + Len(fracDigits) > 0
        magnitude == DigitsValue(intDigits) * Pow10(Len(fracDigits))
                     + DigitsValue(fracDigits)
    IN IF wellFormed
       THEN [ok |-> TRUE,
             v |-> Rat(IF signed /\ t[1] = "-" THEN -magnitude ELSE magnitude,
                       Pow10(Len(fracDigits)))]
       ELSE [ok |-> FALSE, v |-> Zero]

\* difference: None
None == [none |-> TRUE]

\* an answer_range dict: the keys it holds and their values; NoRange is None
NoRange == [is_none |-> TRUE, has_min |-> FALSE, min |-> 0, has_max |-> FALSE,
            max |-> 0, has_tol |-> FALSE, tolerance_percent |-> 0]
RangeDict(has_min, min, has_max, max, has_tol, tol) ==
    [is_none |-> FALSE, has_min |-> has_min, min |-> min, has_max |-> has_max,
     max |-> max, has_tol |-> has_tol, tolerance_percent |-> tol]
\* `if answer_range:` - None and the empty dict are both false
RangeTruthy(r) == ~r.is_none /\ (r.has_min \/ r.has_max \/ r.has_tol)

\* a grader whose range excludes its two endpoints
InRangeExclusive(student_value, answer_range) ==
    /\ (RangeTruthy(answer_range) /\ answer_range.has_min)
          => RatLT(RatInt(answer_range.min), student_value)
    /\ (RangeTruthy(answer_range) /\ answer_range.has_max)
          => RatLT(student_value, RatInt(answer_range.max))
\* min_val <= student_value <= max_val, an absent bound being -inf / +inf
InRange(student_value, answer_range) ==
    /\ (RangeTruthy(answer_range) /\ answer_range.has_min)
          => RatLE(RatInt(answer_range.min), student_value)
    /\ (RangeTruthy(answer_range) /\ answer_range.has_max)
          => RatLE(student_value, RatInt(answer_range.max))

\* answer_range.get("tolerance_percent", tolerance_percent), or the argument
Tolerance(tolerance_percent, answer_range) ==
    IF RangeTruthy(answer_range) /\ answer_range.has_tol
    THEN answer_range.tolerance_percent ELSE tolerance_percent

\* lower_bound <= student_value <= upper_bound
WithinTolerance(student_value, correct_value, tolerance) ==
    LET tolerance_amount == RatMul(correct_value, Rat(tolerance, 100))
        lower_bound == RatSub(correct_value, tolerance_amount)
        upper_bound == RatAdd(correct_value, tolerance_amount)
    IN RatLE(lower_bound, student_value) /\ RatLE(student_value, upper_bound)

\* a grader comparing with a hundredth instead of a ten-thousandth
EpsilonHundredth(correct_value) == Rat(1, 100)
\* max(0.0001, abs(correct_value) * 1e-9)
Epsilon(correct_value) ==
    IF RatLE(RatAbs(correct_value), RatInt(100000)) THEN Rat(1, 10000)
    ELSE RatMul(RatAbs(correct_value), Rat(1, 1000000000))

NumericalResult(is_correct, difference, explanation) ==
    [is_correct |-> is_correct,
     score_percentage |-> IF is_correct THEN Hundred ELSE Zero,
     difference |-> difference, explanation |-> explanation]

\* a grader without the string fast path: every pair goes on to parsing
NeverSameText(student_str, correct_str) == FALSE
\* `if student_str == correct_str:` - the fast path taken before any parsing
SameCleanedText(student_str, correct_str) == student_str = correct_str

grade_numerical(student_answer, correct_answer, range_sensitive, tolerance_percent, answer_range) ==
    LET student_str == CleanNumber(student_answer)
        correct_str == CleanNumber(correct_answer)
        student == ParseFloat(student_str)
        correct == ParseFloat(correct_str)
        difference == RatAbs(RatSub(student.v, correct.v))
        tolerance == Tolerance(tolerance_percent, answer_range)
    IN IF SameCleanedText(student_str, correct_str)
       THEN NumericalResult(TRUE, Zero, "Exact match")
       ELSE IF ~student.ok \/ ~correct.ok
       THEN NumericalResult(FALSE, None, "Invalid numerical format")
       ELSE IF range_sensitive
       THEN IF InRange(student.v, answer_range)
            THEN NumericalResult(TRUE, difference, "Value is within range")
            ELSE IF tolerance > 0 /\ WithinTolerance(student.v, correct.v, tolerance)
            THEN NumericalResult(TRUE, difference, "Within tolerance")
            ELSE NumericalResult(FALSE, difference,
                                 "Value outside acceptable range/tolerance")
       ELSE IF RatLE(difference, Epsilon(correct.v))
            THEN NumericalResult(TRUE, difference, "Exact numerical match")
            ELSE NumericalResult(FALSE, difference, "Expected, got")

(***************************************************************************)
(* grade_short_phrase and _check_meaning_with_ollama                       *)
(***************************************************************************)
\* \b at the gap before index k (between s[k-1] and s[k])
WordBoundary(s, k) ==
    LET before == k > 1 /\ IsWordChar(s[k - 1])
        after == k <= Len(s) /\ IsWordChar(s[k])
    IN before # after

\* \b([01](?:\.\d+)?|0\.\d+)\b tried at index i: the index after the match, 0 if
\* none.  The fraction is tried first (greedy), then the bare digit.
ConfidenceMatchEnd(s, i) ==
    LET k == SkipDigits(s, i + 2)
        withFraction == /\ i + 1 <= Len(s) /\ s[i + 1] = "."
                        /\ k > i + 2
                        /\ WordBoundary(s, k)
    IN IF ~(i <= Len(s) /\ s[i] \in {"0", "1"} /\ WordBoundary(s, i)) THEN 0
       ELSE IF withFraction THEN k
       ELSE IF WordBoundary(s, i + 1) THEN i + 1
       ELSE 0

\* re.search: the leftmost index where the pattern matches, 0 if none
RECURSIVE ConfidenceSearch(_, _)
ConfidenceSearch(s, i) ==
    IF i > Len(s) THEN 0
    ELSE IF ConfidenceMatchEnd(s, i) # 0 THEN i
    ELSE ConfidenceSearch(s, i + 1)

\* "true" in content.lower()
ContainsTrue(content) ==
    LET l == lower(content)
    IN \E i \in 1..Len(l) : i + 3 <= Len(l) /\ SubSeq(l, i, i + 3) = <<"t", "r", "u", "e">>

ParseConfidence(reply) ==
    LET content == strip(reply)
        i == ConfidenceSearch(content, 1)
    IN IF i # 0
       THEN ParseFloat(SubSeq(content, i, ConfidenceMatchEnd(content, i) - 1)).v
       ELSE IF ContainsTrue(content) THEN RatInt(1) ELSE Zero

\* a grader that takes a failed exchange for a full match
check_meaning_failing_open(exchange, threshold) ==
    IF exchange.failed THEN [is_match |-> TRUE, confidence |-> RatInt(1)]
    ELSE LET confidence == ParseConfidence(exchange.content)
         IN [is_match |-> RatLE(threshold, confidence), confidence |-> confidence]
\* the (is_match, confidence) pair of _check_meaning_with_ollama; the exchange
\* either yields a reply text or raises inside the try block
_check_meaning_with_ollama(exchange, threshold) ==
    IF exchange.failed THEN [is_match |-> FALSE, confidence |-> Zero]
    ELSE LET confidence == ParseConfidence(exchange.content)
         IN [is_match |-> RatLE(threshold, confidence), confidence |-> confidence]

ShortPhraseMissing ==
    [is_correct |-> FALSE, score_percentage |-> Zero, confidence |-> Zero,
     explanation |-> "Missing answer"]

\* a grader that reports the confidence itself as the percentage
ShortPhraseResultUnscaled(check) ==
    [is_correct |-> check.is_match,
     score_percentage |-> check.confidence,
     confidence |-> check.confidence,
     explanation |-> "Semantic similarity"]
ShortPhraseResult(check) ==
    [is_correct |-> check.is_match,
     score_percentage |-> RatMul(check.confidence, Hundred),
     confidence |-> check.confidence,
     explanation |-> "Semantic similarity"]

WordChars == {"a", "A", "b", " "}
WordStrings == Strings(WordChars, MaxWordLen)

(***************************************************************************)
(* Explored inputs                                                         *)
(***************************************************************************)
NumChars == {"5", ".", ",", " "}
NumSamples ==
    {<<"1", "0", "0">>, <<"9", "5">>, <<"9", "4", ".", "9">>, <<"1", "0", "5">>,
     <<"1", "0", "5", ".", "1">>, <<"1", ",", "0", "0", "0">>,
     <<" ", "1", "0", "0", "0", " ">>, <<"1", "0", "0", "0">>,
     <<"1", "\t", "0", "0", "0">>, <<"1", "0", "0", "0", "\t">>,
     <<"4", "2">>, <<"4", "2", ".", "0">>, <<"4", "1", ".", "9", "9">>,
     <<"4", "0">>, <<"6", "0">>, <<"3", "9", ".", "9">>,
     <<"-", "1", "0", "0">>, <<"-", "9", "5">>, <<"x">>,
     <<"0">>, <<"0", ".", "0", "0", "0", "1">>, <<"0", ".", "0", "0", "0", "2">>}
NumStrings == Strings(NumChars, MaxNumLen) \cup NumSamples
AnswerRanges ==
    {NoRange} \cup
    {RangeDict(hr, 40, hr, 60, ht, 5) : hr \in BOOLEAN, ht \in BOOLEAN}
TolerancePercents == {0, 5}

PhraseStrings == {<<>>, <<"a">>}
QuestionTexts == {<<>>, <<"q">>}
Thresholds == {Rat(0, 1), Rat(1, 2), Rat(7, 10), Rat(1, 1)}
ReplyChars == {"0", "1", "5", ".", " "}
ReplySamples ==
    {<<"0", ".", "8", "5">>, <<"t", "r", "u", "e">>, <<"T", "r", "u", "e">>,
     <<"0", ".", "5", "x">>, <<"x", "1">>, <<"-", "0", ".", "5">>}
Replies == Strings(ReplyChars, MaxReplyLen) \cup ReplySamples

\* no grading call has been made
NoGrading ==
    /\ pc = "idle"
    /\ call = NoCall
    /\ result = NoResult
    /\ oracle_requests = 0
    /\ oracle_exchange = NoExchange

\* no worker pool has been set up
NoPool ==
    /\ submissions = <<>>
    /\ max_workers = 0
    /\ tasks = <<>>
    /\ frames = <<>>
    /\ futures = <<>>
    /\ results = <<>>

\* no text is being extracted
NoExtraction ==
    /\ text = <<>>
    /\ lines_done = 0
    /\ answers = <<>>
    /\ extract_stage = "none"

\* no submission is being graded
NoSheet ==
    /\ sheet = <<>>
    /\ sheet_pos = 0
    /\ total_score = Zero
    /\ max_score = 0
    /\ sheet_stage = "none"

Init == NoGrading /\ NoPool /\ NoExtraction /\ NoSheet

GradeOneWord ==
    /\ pc = "idle"
    /\ \E s \in WordStrings, c \in WordStrings, cs \in BOOLEAN :
         /\ call' = [fn |-> "grade_one_word", student_answer |-> s,
                     correct_answer |-> c, case_sensitive |-> cs]
         /\ result' = grade_one_word(s, c, cs)
    /\ pc' = "done"
    /\ UNCHANGED <<oracle_requests, oracle_exchange, poolVars, extractVars, sheetVars>>

GradeList ==
    /\ pc = "idle"
    /\ \E kind \in {"str", "list"} :
       \E s \in ListAnswers(kind), c \in ListAnswers(kind),
          os \in BOOLEAN, pm \in BOOLEAN, cs \in BOOLEAN :
         /\ call' = [fn |-> "grade_list", student_answer |-> s, correct_answer |-> c,
                     order_sensitive |-> os, partial_matching |-> pm,
                     case_sensitive |-> cs]
         /\ result' = grade_list(s, c, os, pm, cs)
    /\ pc' = "done"
    /\ UNCHANGED <<oracle_requests, oracle_exchange, poolVars, extractVars, sheetVars>>

GradeNumerical ==
    /\ pc = "idle"
    /\ \E s \in NumStrings, c \in NumStrings, rs \in BOOLEAN,
          tp \in TolerancePercents, ar \in AnswerRanges :
         /\ call' = [fn |-> "grade_numerical", student_answer |-> s,
                     correct_answer |-> c, range_sensitive |-> rs,
                     tolerance_percent |-> tp, answer_range |-> ar]
         /\ result' = grade_numerical(s, c, rs, tp, ar)
    /\ pc' = "done"
    /\ UNCHANGED <<oracle_requests, oracle_exchange, poolVars, extractVars, sheetVars>>

\* grade_short_phrase up to its return or its blocking oracle request
GradeShortPhrase ==
    /\ pc = "idle"
    /\ \E s \in PhraseStrings, c \in PhraseStrings, q \in QuestionTexts,
          th \in Thresholds :
         /\ call' = [fn |-> "grade_short_phrase", student_answer |-> s,
                     correct_answer |-> c, question_text |-> q,
                     semantic_threshold |-> th]
         /\ IF s = <<>> \/ c = <<>>
            THEN /\ result' = ShortPhraseMissing
                 /\ pc' = "done"
                 /\ UNCHANGED oracle_requests
            ELSE /\ result' = NoResult
                 /\ pc' = "awaiting_oracle"
                 /\ oracle_requests' = oracle_requests + 1
    /\ UNCHANGED <<oracle_exchange, poolVars, extractVars, sheetVars>>

\* ollama.chat returns a reply; grade_short_phrase builds its result from it
OracleReply ==
    /\ pc = "awaiting_oracle"
    /\ \E content \in Replies :
         /\ oracle_exchange' = [failed |-> FALSE, content |-> content]
         /\ result' = ShortPhraseResult(_check_meaning_with_ollama(
                           oracle_exchange', call.semantic_threshold))
    /\ pc' = "done"
    /\ UNCHANGED <<call, oracle_requests, poolVars, extractVars, sheetVars>>

\* a grader that answers a failed exchange with a second request
OracleFailureRetried ==
    /\ pc = "awaiting_oracle"
    /\ oracle_requests' = oracle_requests + 1
    /\ UNCHANGED <<pc, call, result, oracle_exchange, poolVars, extractVars, sheetVars>>
\* ollama.chat raises, or the reply lacks ["message"]["content"]
OracleFailure ==
    /\ pc = "awaiting_oracle"
    /\ oracle_exchange' = [failed |-> TRUE, content |-> <<>>]
    /\ result' = ShortPhraseResult(_check_meaning_with_ollama(
                      oracle_exchange', call.semantic_threshold))
    /\ pc' = "done"
    /\ UNCHANGED <<call, oracle_requests, poolVars, extractVars, sheetVars>>

Next ==
    \/ GradeOneWord
    \/ GradeList
    \/ GradeNumerical
    \/ GradeShortPhrase
    \/ OracleReply
    \/ OracleFailure

Spec == Init /\ [][Next]_vars

(***************************************************************************)
(* ThroughputTest: grade_one_submission run by a ThreadPoolExecutor        *)
(***************************************************************************)
MaxSubmissions == 2
MaxWorkers == 2

\* 'marks': 10
Marks == 10
\* the marking scheme of create_submission: one-word questions 1 and 2
MarkingScheme ==
    [q_id \in {1, 2} |->
        [answer_text |-> IF q_id = 1 THEN <<"a">> ELSE <<"b">>,
         marks |-> Marks, case_sensitive |-> FALSE]]
\* submissions as dicts in insertion order: <<q_id, answer>> items
Item(q_id, answer) == [q_id |-> q_id, answer |-> answer]
SubmissionSamples ==
    {<<Item(1, <<"a">>), Item(2, <<"b">>)>>,
     <<Item(1, <<"A", " ">>), Item(2, <<"a">>)>>,
     <<Item(1, <<"b">>), Item(3, <<"a">>), Item(2, <<"b">>)>>,
     <<Item(1, <<>>)>>}

NoFrame == [none |-> TRUE]
\* a frame where every call would keep its totals in one shared place
SharedFrame(sid) == 1
\* total_score and max_score are locals of the call that grades submission sid
FrameOf(sid) == sid

Stage(sid) == tasks[sid].stage
Running == {sid \in DOMAIN tasks : Stage(sid) = "running"}

\* test_concurrent_grading up to the submission of the futures
PoolInit ==
    /\ NoGrading /\ NoExtraction /\ NoSheet
    /\ \E n \in 1..MaxSubmissions, w \in 1..MaxWorkers :
         /\ submissions \in [1..n -> SubmissionSamples]
         /\ max_workers = w
         /\ tasks = [sid \in 1..n |-> [stage |-> "queued", position |-> 1]]
         /\ frames = [slot \in 1..n |-> NoFrame]
         /\ futures = [sid \in 1..n |-> NoResult]
    /\ results = <<>>

\* a free worker takes the oldest queued call and enters grade_one_submission
WorkerStart(sid) ==
    /\ Stage(sid) = "queued"
    /\ \A other \in DOMAIN tasks : other < sid => Stage(other) # "queued"
    /\ Cardinality(Running) < max_workers
    /\ tasks' = [tasks EXCEPT ![sid].stage = "running"]
    /\ frames' = [frames EXCEPT ![FrameOf(sid)] = [total_score |-> 0, max_score |-> 0]]
    /\ UNCHANGED <<gradingVars, extractVars, sheetVars,
                   submissions, max_workers, futures, results>>

\* one pass of `for q_id in submission`
GradeQuestion(sid) ==
    /\ Stage(sid) = "running"
    /\ tasks[sid].position <= Len(submissions[sid])
    /\ LET item == submissions[sid][tasks[sid].position]
           frame == frames[FrameOf(sid)]
       IN IF item.q_id \notin DOMAIN MarkingScheme
          THEN UNCHANGED frames
          ELSE LET scheme == MarkingScheme[item.q_id]
                   graded == grade_one_word(item.answer, scheme.answer_text,
                                            scheme.case_sensitive)
               IN frames' = [frames EXCEPT ![FrameOf(sid)] =
                    [total_score |-> IF graded.is_correct
                                     THEN frame.total_score + scheme.marks
                                     ELSE frame.total_score,
                     max_score |-> frame.max_score + scheme.marks]]
    /\ tasks' = [tasks EXCEPT ![sid].position = @ + 1]
    /\ UNCHANGED <<gradingVars, extractVars, sheetVars,
                   submissions, max_workers, futures, results>>

\* grade_one_submission returns its dict and the future completes
ReturnResult(sid) ==
    /\ Stage(sid) = "running"
    /\ tasks[sid].position > Len(submissions[sid])
    /\ futures' = [futures EXCEPT ![sid] =
          [submission_id |-> sid, success |-> TRUE,
           score |-> frames[FrameOf(sid)].total_score,
           max_score |-> frames[FrameOf(sid)].max_score]]
    /\ tasks' = [tasks EXCEPT ![sid].stage = "done"]
    /\ UNCHANGED <<gradingVars, extractVars, sheetVars,
                   submissions, max_workers, frames, results>>

\* as_completed yields a completed future and its result is appended
CollectResult(sid) ==
    /\ Stage(sid) = "done"
    /\ results' = Append(results, futures[sid])
    /\ tasks' = [tasks EXCEPT ![sid].stage = "collected"]
    /\ UNCHANGED <<gradingVars, extractVars, sheetVars,
                   submissions, max_workers, frames, futures>>

PoolNext ==
    \/ \E sid \in DOMAIN tasks : WorkerStart(sid)
    \/ \E sid \in DOMAIN tasks : GradeQuestion(sid)
    \/ \E sid \in DOMAIN tasks : ReturnResult(sid)
    \/ \E sid \in DOMAIN tasks : CollectResult(sid)

SpecPool == PoolInit /\ [][PoolNext]_vars

(***************************************************************************)
(* AnswerExtractor: extract(text) -> mapping from question number to text, *)
(* as the design document describes it (section 4.1)                       *)
(***************************************************************************)
MaxLines == 3

\* an extractor that knows the delimiters '.' and ')' only
IsDotOrParen(c) == c \in {".", ")"}
\* the delimiters that may follow the question number
IsAnswerDelim(c) == c \in {".", ")", ":", "-"}

\* the numbered-answer pattern on one line: leading whitespace, one or more
\* digits, one delimiter; the index after the delimiter, 0 if no match
AnswerMarkerEnd(line) ==
    LET start == SkipSpaces(line, 1)
        k == SkipDigits(line, start)
    IN IF k > start /\ k <= Len(line) /\ IsAnswerDelim(line[k]) THEN k + 1 ELSE 0

\* the question number in front of the delimiter of a matching line
QuestionNumber(line) ==
    LET start == SkipSpaces(line, 1)
    IN DigitsValue(SubSeq(line, start, SkipDigits(line, start) - 1))

\* every run of spaces and tabs becomes one space
RECURSIVE CollapseBlanks(_)
CollapseBlanks(s) ==
    IF s = <<>> THEN <<>>
    ELSE IF ~IsSpace(Head(s)) THEN <<Head(s)>> \o CollapseBlanks(Tail(s))
    ELSE IF Len(s) > 1 /\ IsSpace(s[2]) THEN CollapseBlanks(Tail(s))
    ELSE <<" ">> \o CollapseBlanks(Tail(s))

\* an extractor that trims the remainder and leaves its inner runs alone
AnswerTextTrimmedOnly(rest) == strip(rest)
\* the remainder of the line, whitespace-collapsed and trimmed
AnswerText(rest) == strip(CollapseBlanks(rest))

\* an extractor that keeps the first answer of a question number
StoreAnswerIfAbsent(mapping, number, answer) == IF number \in DOMAIN mapping THEN mapping ELSE [n \in DOMAIN mapping \cup {number} |-> IF n = number THEN answer ELSE mapping[n]]
\* mapping[number] = answer, a later line overwriting an earlier one
StoreAnswer(mapping, number, answer) == [n \in DOMAIN mapping \cup {number} |-> IF n = number THEN answer ELSE mapping[n]]

\* the mapping after one more line: a matching line is stored, any other skipped
ExtractLine(mapping, line) ==
    LET e == AnswerMarkerEnd(line)
    IN IF e = 0 THEN mapping
       ELSE StoreAnswer(mapping, QuestionNumber(line),
                        AnswerText(SubSeq(line, e, Len(line))))

TextLines == SplitLines(text, 1, <<>>)

LineSamples ==
    {<<"1", ".", " ", "a">>,
     <<"1", ")", "a">>,
     <<"1", ":", " ", "b">>,
     <<"1", "-", "a">>,
     <<" ", "2", ".", " ", " ", "a", " ", " ", "b", " ">>,
     <<"1", "2", ".", " ", "b">>,
     <<"a">>,
     <<>>,
     <<"Q", "1", ".", " ", "a">>,
     <<"1", " ", "a">>,
     <<"1", ".">>,
     <<"2", ".", "\t", "a", " ", "\t", "b">>,
     <<"a", " ", "1", ".", " ", "b">>,
     <<"1", ".", "2">>}
RECURSIVE JoinLines(_)
JoinLines(ls) ==
    IF Len(ls) = 1 THEN ls[1]
    ELSE ls[1] \o <<"\n">> \o JoinLines(Tail(ls))
ExtractTexts == {JoinLines(ls) : ls \in Strings(LineSamples, MaxLines) \ {<<>>}}

\* extract(text) is called
ExtractInit ==
    /\ NoGrading /\ NoPool /\ NoSheet
    /\ text \in ExtractTexts
    /\ lines_done = 0
    /\ answers = <<>>
    /\ extract_stage = "scanning"

\* the next line of the text is matched against the pattern
ScanLine ==
    /\ extract_stage = "scanning"
    /\ lines_done < Len(TextLines)
    /\ answers' = ExtractLine(answers, TextLines[lines_done + 1])
    /\ lines_done' = lines_done + 1
    /\ UNCHANGED <<text, extract_stage, gradingVars, poolVars, sheetVars>>

\* after the last line the mapping is returned
ReturnAnswers ==
    /\ extract_stage = "scanning"
    /\ lines_done = Len(TextLines)
    /\ extract_stage' = "returned"
    /\ UNCHANGED <<text, lines_done, answers, gradingVars, poolVars, sheetVars>>

ExtractNext == ScanLine \/ ReturnAnswers

SpecExtract == ExtractInit /\ [][ExtractNext]_vars

(***************************************************************************)
(* GradingSpeedTest.grade_submission: one pass over a submission           *)
(***************************************************************************)
\* scheme.get(key, default)
SchemeEntry(answer_text, grading_type, order_sensitive) ==
    [answer_text |-> answer_text, grading_type |-> grading_type, marks |-> Marks,
     case_sensitive |-> FALSE, range_sensitive |-> FALSE, tolerance_percent |-> 0,
     range |-> NoRange, order_sensitive |-> order_sensitive, partial_matching |-> TRUE]
\* a marking scheme with the question types of create_test_submission, an
\* ordered list question, a type grade_submission does not grade and a list
\* question whose correct answer has no items
SheetScheme ==
    [q_id \in {1, 2, 3, 4, 5, 7} |->
        CASE q_id = 1 -> SchemeEntry(<<"a">>, "one-word", FALSE)
          [] q_id = 2 -> SchemeEntry(<<"4", "2">>, "numerical", FALSE)
          [] q_id = 3 -> SchemeEntry(<<"a", ",", "b">>, "list", FALSE)
          [] q_id = 4 -> SchemeEntry(<<"a", ",", "b">>, "list", TRUE)
          [] q_id = 5 -> SchemeEntry(<<"a">>, "short-phrase", FALSE)
          [] q_id = 7 -> SchemeEntry(<<",">>, "list", FALSE)]
\* the answers a submission may give to question q_id
SheetAnswers(q_id) ==
    CASE q_id = 1 -> {<<"a">>, <<"b">>}
      [] q_id = 2 -> {<<"4", "2">>, <<"4", "1", ".", "9", "9">>}
      [] q_id = 3 -> {<<"a", ",", "b">>, <<"b">>, <<"b", ",", "a", ",", "c">>}
      [] q_id = 4 -> {<<"b", ",", "a">>, <<"a", ",", "b", ",", "a">>}
      [] OTHER -> {<<"a">>}
\* submissions: questions 1, 2, 3, 6, 4, 5 in this order, question 7 last or absent
Sheets ==
    {<<Item(1, a1), Item(2, a2), Item(3, a3), Item(6, <<"a">>), Item(4, a4),
       Item(5, <<"a">>)>> \o tail :
        a1 \in SheetAnswers(1), a2 \in SheetAnswers(2), a3 \in SheetAnswers(3),
        a4 \in SheetAnswers(4), tail \in {<<>>, <<Item(7, <<"a">>)>>}}

\* the result of the grader the grading_type selects, NoResult for any other type
GradeByType(scheme, student_answer) ==
    CASE scheme.grading_type = "one-word" ->
            grade_one_word(student_answer, scheme.answer_text, scheme.case_sensitive)
      [] scheme.grading_type = "numerical" ->
            grade_numerical(student_answer, scheme.answer_text, scheme.range_sensitive,
                            scheme.tolerance_percent, scheme.range)
      [] scheme.grading_type = "list" ->
            grade_list([kind |-> "str", v |-> student_answer],
                       [kind |-> "str", v |-> scheme.answer_text],
                       scheme.order_sensitive, scheme.partial_matching,
                       scheme.case_sensitive)
      [] OTHER -> NoResult

\* a grader that adds marks * score_percentage
PartialCreditUnscaled(marks, score_percentage) == RatMul(RatInt(marks), score_percentage)
\* marks * (result['score_percentage'] / 100)
PartialCredit(marks, score_percentage) == RatMul(RatInt(marks), RatMul(score_percentage, Rat(1, 100)))

\* what one graded question adds to total_score
Earned(scheme, graded) ==
    IF ~Returned(graded) THEN Zero
    ELSE IF graded.is_correct THEN RatInt(scheme.marks)
    ELSE IF scheme.grading_type = "list" /\ RatLT(Zero, graded.score_percentage)
    THEN PartialCredit(scheme.marks, graded.score_percentage)
    ELSE Zero

\* grade_submission is called
SheetInit ==
    /\ NoGrading /\ NoPool /\ NoExtraction
    /\ sheet \in Sheets
    /\ sheet_pos = 0
    /\ total_score = Zero
    /\ max_score = 0
    /\ sheet_stage = "grading"

\* one pass of `for q_id in submission`; an exception of the grader ends the call
GradeSheetQuestion ==
    /\ sheet_stage = "grading"
    /\ sheet_pos < Len(sheet)
    /\ \E item \in {sheet[sheet_pos + 1]} :
          IF item.q_id \notin DOMAIN SheetScheme
          THEN UNCHANGED <<total_score, max_score, sheet_stage>>
          ELSE \E scheme \in {SheetScheme[item.q_id]} :
               \E graded \in {GradeByType(scheme, item.answer)} :
                  /\ max_score' = max_score + scheme.marks
                  /\ total_score' = RatAdd(total_score, Earned(scheme, graded))
                  /\ sheet_stage' = IF Raised(graded) THEN "raised" ELSE "grading"
    /\ sheet_pos' = sheet_pos + 1
    /\ UNCHANGED <<sheet, gradingVars, poolVars, extractVars>>

\* return total_score, max_score
ReturnScores ==
    /\ sheet_stage = "grading"
    /\ sheet_pos = Len(sheet)
    /\ sheet_stage' = "returned"
    /\ UNCHANGED <<sheet, sheet_pos, total_score, max_score,
                   gradingVars, poolVars, extractVars>>

SheetNext == GradeSheetQuestion \/ ReturnScores

SpecSheet == SheetInit /\ [][SheetNext]_vars

(***************************************************************************)
(* Properties                                                              *)
(***************************************************************************)
Done == pc = "done"
GradedBy(fn) == pc = "done" /\ call.fn = fn

\* the normalized token sequences of the current grade_list call
StudentTokens == NormalizeAnswer(call.student_answer, call.case_sensitive)
CorrectTokens == NormalizeAnswer(call.correct_answer, call.case_sensitive)

\* the raw answers of the current call as texts (or item lists)
StudentRaw == IF call.fn = "grade_list" THEN call.student_answer.v ELSE call.student_answer
CorrectRaw == IF call.fn = "grade_list" THEN call.correct_answer.v ELSE call.correct_answer

\* C1: every returned result has 0 <= score_percentage <= 100
C1_ScoreWithinZeroAndHundred ==
    (Done /\ Returned(result)) =>
        /\ RatLE(Zero, result.score_percentage)
        /\ RatLE(result.score_percentage, Hundred)

\* C2: no grading call lets an exception escape; each returns a result record
C2_NoExceptionEscapes == Done => Returned(result)

\* C3: a result of the order-sensitive partial-matching branch of grade_list has
\* score = LCS / len(correct) * 100 and is_correct = FALSE
C3_OrderedPartialNeverCorrect ==
    (/\ GradedBy("grade_list") /\ Returned(result)
     /\ StudentRaw # <<>> /\ CorrectRaw # <<>>
     /\ call.order_sensitive /\ call.partial_matching
     /\ StudentTokens # CorrectTokens)
    => /\ RatEq(result.score_percentage,
                Rat(100 * _longest_common_subsequence(StudentTokens, CorrectTokens),
                    Len(CorrectTokens)))
       /\ result.is_correct = FALSE

\* C4: a result of the order-insensitive partial-matching branch of grade_list
\* has score = |student set /\ correct set| / |correct set| * 100 and
\* is_correct = FALSE
C4_UnorderedPartialNeverCorrect ==
    (/\ GradedBy("grade_list") /\ Returned(result)
     /\ StudentRaw # <<>> /\ CorrectRaw # <<>>
     /\ ~call.order_sensitive /\ call.partial_matching
     /\ ToSet(StudentTokens) # ToSet(CorrectTokens))
    => /\ RatEq(result.score_percentage,
                Rat(100 * Cardinality(ToSet(StudentTokens) \cap ToSet(CorrectTokens)),
                    Cardinality(ToSet(CorrectTokens))))
       /\ result.is_correct = FALSE

\* C5: grade_list answers "Missing answer" with score 0 whenever either side
\* normalizes to an empty token sequence
C5_EmptyTokensAreMissingAnswer ==
    (GradedBy("grade_list") /\ (StudentTokens = <<>> \/ CorrectTokens = <<>>))
    => /\ Returned(result)
       /\ result.is_correct = FALSE
       /\ RatEq(result.score_percentage, Zero)
       /\ result.explanation = "Missing answer"

\* C6: for every grading type an empty student or correct answer gives a
\* returned result with is_correct = FALSE and score 0
C6_EmptyAnswerScoresZero ==
    (Done /\ (StudentRaw = <<>> \/ CorrectRaw = <<>>))
    => /\ Returned(result)
       /\ result.is_correct = FALSE
       /\ RatEq(result.score_percentage, Zero)

\* C7: every result of grade_list and grade_numerical has is_correct exactly
\* when score_percentage is 100
C7_CorrectIffFullScore ==
    (Done /\ call.fn \in {"grade_list", "grade_numerical"} /\ Returned(result))
    => (result.is_correct <=> RatEq(result.score_percentage, Hundred))

\* a partial list score strictly between 0 and 100, graded not correct
C7_Witness ==
    /\ GradedBy("grade_list") /\ Returned(result)
    /\ call.partial_matching
    /\ RatLT(Zero, result.score_percentage)
    /\ RatLT(result.score_percentage, Hundred)
    /\ ~result.is_correct

\* the text between the first and the last non-whitespace character of s
TrimmedText(s) ==
    LET inked == {i \in 1..Len(s) : ~IsSpace(s[i])}
    IN IF inked = {} THEN <<>>
       ELSE SubSeq(s, CHOOSE i \in inked : \A j \in inked : i <= j,
                      CHOOSE i \in inked : \A j \in inked : j <= i)

\* the two cases of one letter
CasePairs == {{"a", "A"}, {"b", "B"}}
\* x and y are the same text up to the case of their letters
SameUpToCase(x, y) ==
    /\ Len(x) = Len(y)
    /\ \A i \in 1..Len(x) : x[i] = y[i] \/ {x[i], y[i]} \in CasePairs

\* C8: grade_one_word on two non-empty texts is correct iff they are identical
\* after trimming both and, unless case_sensitive, ignoring letter case; the
\* score is 100 when correct and 0 otherwise
C8_OneWordExactAfterNormalizing ==
    (GradedBy("grade_one_word") /\ StudentRaw # <<>> /\ CorrectRaw # <<>>)
    => /\ Returned(result)
       /\ result.is_correct <=>
             IF call.case_sensitive
             THEN TrimmedText(StudentRaw) = TrimmedText(CorrectRaw)
             ELSE SameUpToCase(TrimmedText(StudentRaw), TrimmedText(CorrectRaw))
       /\ RatEq(result.score_percentage, IF result.is_correct THEN Hundred ELSE Zero)

\* a student text with other padding and other case than the key, graded correct
C8_Witness ==
    /\ GradedBy("grade_one_word") /\ ~call.case_sensitive
    /\ Len(StudentRaw) > Len(CorrectRaw)
    /\ lower(TrimmedText(StudentRaw)) # TrimmedText(StudentRaw)
    /\ result.is_correct

\* C9 as stated: for every text s and every case permutation s' of s,
\* grade_one_word(s', s, case_sensitive = False) is correct
C9_CasePermutationCorrect ==
    (/\ GradedBy("grade_one_word") /\ ~call.case_sensitive
     /\ SameUpToCase(StudentRaw, CorrectRaw))
    => result.is_correct

\* C9 amended: for every non-empty text s and every case permutation s' of s,
\* grade_one_word(s', s, case_sensitive = False) is correct
C9_NonEmptyCasePermutationCorrect ==
    (/\ GradedBy("grade_one_word") /\ ~call.case_sensitive
     /\ CorrectRaw # <<>>
     /\ SameUpToCase(StudentRaw, CorrectRaw))
    => result.is_correct

\* a case permutation that differs from the key, graded correct
C9_Witness ==
    /\ GradedBy("grade_one_word") /\ ~call.case_sensitive
    /\ CorrectRaw # <<>> /\ StudentRaw # CorrectRaw
    /\ SameUpToCase(StudentRaw, CorrectRaw)
    /\ result.is_correct

\* C10: range-sensitive numerical grading given only a tolerance_percent > 0
\* (no min, no max) is correct iff the student value lies within
\* correct +/- correct * tolerance_percent / 100
C10_ToleranceOnlyBand ==
    LET student == ParseFloat(CleanNumber(StudentRaw))
        correct == ParseFloat(CleanNumber(CorrectRaw))
        tolerance == IF ~call.answer_range.is_none /\ call.answer_range.has_tol
                     THEN call.answer_range.tolerance_percent
                     ELSE call.tolerance_percent
    IN (/\ GradedBy("grade_numerical") /\ call.range_sensitive
        /\ ~call.answer_range.has_min /\ ~call.answer_range.has_max
        /\ tolerance > 0
        /\ student.ok /\ correct.ok)
       => (result.is_correct <=>
             RatLE(RatMul(RatAbs(RatSub(student.v, correct.v)), Hundred),
                   RatMul(RatAbs(correct.v), RatInt(tolerance))))

\* the text s without the characters of drop
Without(s, drop) == SelectSeq(s, LAMBDA ch : ch \notin drop)
\* the numbers written by the two answers of the current grade_numerical call
StudentNumber == ParseFloat(Without(StudentRaw, {",", " "}))
CorrectNumber == ParseFloat(Without(CorrectRaw, {",", " "}))
\* the tolerance in force: the one of answer_range when it has one
ToleranceInForce ==
    IF ~call.answer_range.is_none /\ call.answer_range.has_tol
    THEN call.answer_range.tolerance_percent
    ELSE call.tolerance_percent
\* a range-sensitive call whose answer_range has min and max, on two numbers
RangedCall ==
    /\ GradedBy("grade_numerical") /\ call.range_sensitive
    /\ ~call.answer_range.is_none
    /\ call.answer_range.has_min /\ call.answer_range.has_max
    /\ StudentNumber.ok /\ CorrectNumber.ok
\* min <= student value <= max
StudentInsideRange ==
    /\ RatLE(RatInt(call.answer_range.min), StudentNumber.v)
    /\ RatLE(StudentNumber.v, RatInt(call.answer_range.max))

\* C11 as stated: with explicit min and max a student value inside [min, max]
\* is graded correct whatever its distance from the correct value, and a value
\* outside [min, max] with no positive tolerance is graded incorrect
C11_RangeDecides ==
    RangedCall =>
        /\ StudentInsideRange => result.is_correct
        /\ (~StudentInsideRange /\ ToleranceInForce <= 0) => ~result.is_correct

\* C11 amended: with explicit min and max and two answers that parse, a student
\* value inside [min, max] is graded correct whatever its distance from the
\* correct value; a value outside [min, max] with no positive tolerance is
\* graded incorrect unless the cleaned student text is identical to the cleaned
\* correct text, which is graded correct
C11_RangeDecidesUnlessSameText ==
    RangedCall =>
        /\ StudentInsideRange => result.is_correct
        /\ (~StudentInsideRange /\ ToleranceInForce <= 0) =>
              (result.is_correct <=>
                 Without(StudentRaw, {",", " "}) = Without(CorrectRaw, {",", " "}))

\* a student value on the lower end of the range, outside the 5% band around
\* the correct value, graded correct
C11_Witness ==
    /\ RangedCall /\ StudentInsideRange
    /\ RatEq(StudentNumber.v, RatInt(call.answer_range.min))
    /\ RatEq(CorrectNumber.v, RatInt(100))
    /\ ToleranceInForce > 0
    /\ result.is_correct

\* C12: grade_numerical(x, x, ...) is correct for every numeric x, in exact
\* mode and in range-sensitive mode with any min/max and any tolerance
C12_SameAnswerIsCorrect ==
    (/\ GradedBy("grade_numerical")
     /\ StudentRaw = CorrectRaw
     /\ StudentNumber.ok)
    => Returned(result) /\ result.is_correct

\* x graded against itself in range-sensitive mode while x lies outside
\* [min, max] and no tolerance is in force
C12_Witness ==
    /\ RangedCall /\ StudentRaw = CorrectRaw
    /\ ~StudentInsideRange /\ ToleranceInForce = 0
    /\ result.is_correct

\* the parts of a result that say how the answer was graded
Verdict(r) == [is_correct |-> r.is_correct, score_percentage |-> r.score_percentage]
\* the result of the current grade_numerical call had the student written s
NumericalVerdictFor(s) ==
    Verdict(grade_numerical(s, call.correct_answer, call.range_sensitive,
                            call.tolerance_percent, call.answer_range))
Thousand == <<"1", "0", "0", "0">>
ThousandSpellings == {<<"1", ",", "0", "0", "0">>, <<" ", "1", "0", "0", "0", " ">>, Thousand}

\* C13 as stated: commas and all whitespace (spaces, tabs, newlines) are
\* removed before comparing, so a student answer is graded as the same answer
\* without its commas and whitespace; "1,000", " 1000 " and "1000" are correct
\* against "1000"
C13_CommasAndWhitespaceIgnored ==
    GradedBy("grade_numerical") =>
        /\ Verdict(result) = NumericalVerdictFor(Without(StudentRaw, {",", " ", "\t", "\n"}))
        /\ (CorrectRaw = Thousand /\ StudentRaw \in ThousandSpellings)
              => result.is_correct

\* C13 amended: commas and space characters are removed before comparing, so a
\* student answer is graded as the same answer without its commas and spaces;
\* "1,000", " 1000 " and "1000" are correct against "1000"
C13_CommasAndSpacesIgnored ==
    GradedBy("grade_numerical") =>
        /\ Verdict(result) = NumericalVerdictFor(Without(StudentRaw, {",", " "}))
        /\ (CorrectRaw = Thousand /\ StudentRaw \in ThousandSpellings)
              => result.is_correct

\* "1,000" graded correct against "1000"
C13_Witness ==
    /\ GradedBy("grade_numerical")
    /\ StudentRaw = <<"1", ",", "0", "0", "0">> /\ CorrectRaw = Thousand
    /\ result.is_correct

\* max(1e-4, |correct| * 1e-9)
ExactBound(correct) ==
    IF RatLE(RatAbs(correct), RatInt(100000)) THEN Rat(1, 10000)
    ELSE RatMul(RatAbs(correct), Rat(1, 1000000000))
\* an exact-mode call on two numbers
ExactCall ==
    /\ GradedBy("grade_numerical") /\ ~call.range_sensitive
    /\ StudentNumber.ok /\ CorrectNumber.ok

\* C14: in exact mode the student value is correct iff
\* |student - correct| <= max(1e-4, |correct| * 1e-9); "42.0" is correct
\* against "42" and "41.99" is not
C14_ExactWithinEpsilon ==
    ExactCall =>
        /\ result.is_correct <=>
              RatLE(RatAbs(RatSub(StudentNumber.v, CorrectNumber.v)),
                    ExactBound(CorrectNumber.v))
        /\ (StudentRaw = <<"4", "2", ".", "0">> /\ CorrectRaw = <<"4", "2">>)
              => result.is_correct
        /\ (StudentRaw = <<"4", "1", ".", "9", "9">> /\ CorrectRaw = <<"4", "2">>)
              => ~result.is_correct

\* a student value exactly 1e-4 away from the correct value, graded correct
C14_Witness ==
    /\ ExactCall
    /\ RatEq(RatAbs(RatSub(StudentNumber.v, CorrectNumber.v)), Rat(1, 10000))
    /\ result.is_correct

\* C15: when the cleaned student or correct text does not parse as a number,
\* grade_numerical returns is_correct = FALSE, score 0, no difference and an
\* "Invalid numerical format" explanation; every other result carries a
\* difference that is a number >= 0
C15_UnparsableIsInvalidFormat ==
    GradedBy("grade_numerical") =>
        /\ Returned(result)
        /\ IF ~StudentNumber.ok \/ ~CorrectNumber.ok
           THEN /\ result.is_correct = FALSE
                /\ RatEq(result.score_percentage, Zero)
                /\ result.difference = None
                /\ result.explanation = "Invalid numerical format"
           ELSE /\ result.difference # None
                /\ RatLE(Zero, result.difference)

\* a finished grade_short_phrase call on two non-empty answers
PhraseGraded ==
    GradedBy("grade_short_phrase") /\ StudentRaw # <<>> /\ CorrectRaw # <<>>

\* C16 as stated: every result of grade_short_phrase has is_correct iff
\* confidence >= semantic_threshold and score_percentage = confidence * 100;
\* the reply "0.85" with threshold 0.7 gives is_correct and score 85
C16_CorrectIffConfident ==
    GradedBy("grade_short_phrase") =>
        /\ result.is_correct <=> RatLE(call.semantic_threshold, result.confidence)
        /\ RatEq(result.score_percentage, RatMul(result.confidence, Hundred))
        /\ (/\ ~oracle_exchange.failed
            /\ oracle_exchange.content = <<"0", ".", "8", "5">>
            /\ call.semantic_threshold = Rat(7, 10))
           => result.is_correct /\ RatEq(result.score_percentage, RatInt(85))

\* C16 amended: every result of grade_short_phrase built from an oracle reply
\* has is_correct iff confidence >= semantic_threshold, and every result has
\* score_percentage = confidence * 100; the results for a missing answer and
\* for a failed exchange have is_correct = FALSE and confidence 0 whatever the
\* threshold; the reply "0.85" with threshold 0.7 gives is_correct and score 85
C16_CorrectIffConfidentReply ==
    GradedBy("grade_short_phrase") =>
        /\ IF PhraseGraded /\ ~oracle_exchange.failed
           THEN result.is_correct <=>
                    RatLE(call.semantic_threshold, result.confidence)
           ELSE ~result.is_correct /\ RatEq(result.confidence, Zero)
        /\ RatEq(result.score_percentage, RatMul(result.confidence, Hundred))
        /\ (/\ PhraseGraded /\ ~oracle_exchange.failed
            /\ oracle_exchange.content = <<"0", ".", "8", "5">>
            /\ call.semantic_threshold = Rat(7, 10))
           => result.is_correct /\ RatEq(result.score_percentage, RatInt(85))

\* the reply "0.85" at threshold 0.7, graded correct with score 85
C16_Witness ==
    /\ PhraseGraded /\ ~oracle_exchange.failed
    /\ oracle_exchange.content = <<"0", ".", "8", "5">>
    /\ call.semantic_threshold = Rat(7, 10)
    /\ result.is_correct /\ RatEq(result.score_percentage, RatInt(85))

\* C17: a failed oracle exchange is caught: grade_short_phrase returns a result
\* with is_correct = FALSE, confidence 0 and score 0, and raises nothing
C17_OracleFailureIsCaught ==
    (PhraseGraded /\ oracle_exchange.failed) =>
        /\ Returned(result)
        /\ result.is_correct = FALSE
        /\ RatEq(result.confidence, Zero)
        /\ RatEq(result.score_percentage, Zero)

\* a call whose oracle exchange failed, answered with a result
C17_Witness ==
    /\ PhraseGraded /\ oracle_exchange.failed
    /\ Returned(result) /\ ~result.is_correct

\* C18: a grade_short_phrase call on two non-empty answers issues exactly one
\* oracle request and has no result until that request has replied or failed;
\* a call with a missing answer issues no request
C18_OneRequestBeforeResult ==
    /\ pc = "awaiting_oracle" =>
          /\ oracle_requests = 1
          /\ result = NoResult
          /\ oracle_exchange = NoExchange
    /\ GradedBy("grade_short_phrase") =>
          IF StudentRaw = <<>> \/ CorrectRaw = <<>>
          THEN oracle_requests = 0 /\ oracle_exchange = NoExchange
          ELSE oracle_requests = 1 /\ oracle_exchange # NoExchange

\* a result built from the reply to the single request of the call
C18_Witness ==
    /\ PhraseGraded /\ oracle_requests = 1
    /\ oracle_exchange # NoExchange /\ ~oracle_exchange.failed
    /\ Returned(result)

\* score and max_score of grade_one_submission run alone on one submission
RECURSIVE ScoreAlone(_)
ScoreAlone(submission) ==
    IF submission = <<>> THEN [score |-> 0, max_score |-> 0]
    ELSE LET item == submission[Len(submission)]
             before == ScoreAlone(SubSeq(submission, 1, Len(submission) - 1))
         IN IF item.q_id \notin DOMAIN MarkingScheme THEN before
            ELSE LET scheme == MarkingScheme[item.q_id]
                     right == grade_one_word(item.answer, scheme.answer_text,
                                             scheme.case_sensitive).is_correct
                 IN [score |-> before.score + (IF right THEN scheme.marks ELSE 0),
                     max_score |-> before.max_score + scheme.marks]
AllCollected == \A sid \in DOMAIN tasks : Stage(sid) = "collected"

\* C20: a worker pool of any size collects exactly one result per submission,
\* and in every interleaving each collected score and max_score are the ones
\* grade_one_submission returns for that submission run alone
C20_PoolMatchesSequential ==
    /\ \A i \in 1..Len(results) :
          /\ results[i].success
          /\ results[i].score = ScoreAlone(submissions[results[i].submission_id]).score
          /\ results[i].max_score =
                ScoreAlone(submissions[results[i].submission_id]).max_score
    /\ \A i \in 1..Len(results), j \in 1..Len(results) :
          results[i].submission_id = results[j].submission_id => i = j
    /\ AllCollected \/ ENABLED PoolNext
    /\ AllCollected => Len(results) = Len(submissions)

\* two submissions with different scores graded by two workers at once and
\* collected in the reverse of the order of submission
C20_Witness ==
    /\ AllCollected /\ max_workers = 2 /\ Len(results) = 2
    /\ results[1].submission_id = 2
    /\ results[1].score # results[2].score

\* a finished order-sensitive grade_list call
OrderedCall == GradedBy("grade_list") /\ call.order_sensitive

\* C21 as stated: in order-sensitive list grading identical token sequences
\* give is_correct = TRUE and score 100, and different token sequences with
\* partial_matching = FALSE give is_correct = FALSE and score 0
C21_OrderedExactMatch ==
    OrderedCall =>
        /\ StudentTokens = CorrectTokens =>
              /\ Returned(result) /\ result.is_correct
              /\ RatEq(result.score_percentage, Hundred)
        /\ (StudentTokens # CorrectTokens /\ ~call.partial_matching) =>
              /\ Returned(result) /\ ~result.is_correct
              /\ RatEq(result.score_percentage, Zero)

\* C21 amended: in order-sensitive list grading identical non-empty token
\* sequences give is_correct = TRUE and score 100, and different token
\* sequences with partial_matching = FALSE give is_correct = FALSE and score 0
C21_OrderedExactMatchOfTokens ==
    OrderedCall =>
        /\ (StudentTokens = CorrectTokens /\ StudentTokens # <<>>) =>
              /\ Returned(result) /\ result.is_correct
              /\ RatEq(result.score_percentage, Hundred)
        /\ (StudentTokens # CorrectTokens /\ ~call.partial_matching) =>
              /\ Returned(result) /\ ~result.is_correct
              /\ RatEq(result.score_percentage, Zero)

\* the same tokens in another order, without partial matching, graded 0
C21_Witness ==
    /\ OrderedCall /\ ~call.partial_matching
    /\ StudentTokens # CorrectTokens
    /\ ToSet(StudentTokens) = ToSet(CorrectTokens)
    /\ Len(StudentTokens) = Len(CorrectTokens)
    /\ ~result.is_correct /\ RatEq(result.score_percentage, Zero)

\* line starts, after whitespace, with digits i..k-1 and a delimiter at k
NumberedAt(line, i, k) ==
    /\ 1 <= i /\ i < k /\ k <= Len(line)
    /\ \A j \in 1..(i - 1) : IsSpace(line[j])
    /\ \A j \in i..(k - 1) : IsDigit(line[j])
    /\ line[k] \in {".", ")", ":", "-"}
IsNumberedLine(line) == \E i \in 1..Len(line), k \in 1..Len(line) : NumberedAt(line, i, k)
\* the number and the remainder of a numbered line
NumberOfLine(line) ==
    LET ik == CHOOSE ik \in (1..Len(line)) \X (1..Len(line)) : NumberedAt(line, ik[1], ik[2])
    IN DigitsValue(SubSeq(line, ik[1], ik[2] - 1))
RemainderOfLine(line) ==
    LET ik == CHOOSE ik \in (1..Len(line)) \X (1..Len(line)) : NumberedAt(line, ik[1], ik[2])
    IN SubSeq(line, ik[2] + 1, Len(line))
\* the lines scanned so far that are numbered n
ScannedWith(n) ==
    {i \in 1..lines_done : IsNumberedLine(TextLines[i]) /\ NumberOfLine(TextLines[i]) = n}
ScannedNumbers ==
    {NumberOfLine(TextLines[i]) : i \in {j \in 1..lines_done : IsNumberedLine(TextLines[j])}}

\* C22: extraction has an entry for exactly the numbers of the lines that start,
\* after whitespace, with digits and one of . ) : - ; every other line is
\* skipped, and a text without such a line, the empty text included, gives the
\* empty mapping
C22_ExactlyNumberedLinesExtracted ==
    extract_stage \in {"scanning", "returned"} =>
        /\ DOMAIN answers = ScannedNumbers
        /\ (extract_stage = "returned" /\ text = <<>>) => answers = <<>>
        /\ (extract_stage = "returned"
            /\ \A i \in 1..Len(TextLines) : ~IsNumberedLine(TextLines[i]))
           => answers = <<>>

\* a text with a free-text line and an indented line numbered with '-' or ':',
\* extracted to one entry
C22_Witness ==
    /\ extract_stage = "returned"
    /\ \E i \in 1..Len(TextLines) :
          TextLines[i] # <<>> /\ ~IsNumberedLine(TextLines[i])
    /\ \E i \in 1..Len(TextLines) :
          /\ IsNumberedLine(TextLines[i])
          /\ \E k \in 1..Len(TextLines[i]) : TextLines[i][k] \in {":", "-"}
    /\ Cardinality(DOMAIN answers) = 1

\* the number of whitespace runs between the inked characters of s
InnerRuns(s) ==
    LET t == TrimmedText(s)
    IN Cardinality({i \in 2..Len(t) : IsSpace(t[i]) /\ ~IsSpace(t[i - 1])})
\* a is s with every whitespace run collapsed to one space, and trimmed
IsCollapsedAndTrimmed(a, s) ==
    /\ Without(a, {" ", "\t"}) = Without(s, {" ", "\t"})
    /\ \A i \in 1..Len(a) : IsSpace(a[i]) =>
          /\ a[i] = " " /\ 1 < i /\ i < Len(a)
          /\ ~IsSpace(a[i + 1])
    /\ Cardinality({i \in 1..Len(a) : IsSpace(a[i])}) = InnerRuns(s)

\* C23: every extracted answer is the remainder of its line with each run of
\* spaces/tabs collapsed to one space and trimmed: it neither starts nor ends
\* with whitespace and has no two whitespace characters in a row
C23_AnswersCollapsedAndTrimmed ==
    \A n \in DOMAIN answers :
        \E i \in ScannedWith(n) :
            IsCollapsedAndTrimmed(answers[n], RemainderOfLine(TextLines[i]))

\* "2.  a  b " extracted as "a b"
C23_Witness ==
    /\ extract_stage = "returned"
    /\ \E i \in 1..Len(TextLines) :
          TextLines[i] = <<" ", "2", ".", " ", " ", "a", " ", " ", "b", " ">>
    /\ 2 \in DOMAIN answers
    /\ answers[2] = <<"a", " ", "b">>

\* C24: when a question number occurs on several matching lines, the mapping
\* holds the answer of the last of them in line order, and the answers of the
\* other numbers are those of their own last lines
C24_LastWriteWins ==
    \A n \in DOMAIN answers :
        LET last == CHOOSE i \in ScannedWith(n) : \A j \in ScannedWith(n) : j <= i
        IN answers[n] = strip(CollapseBlanks(RemainderOfLine(TextLines[last])))

\* a number met twice with different answers next to another number
C24_Witness ==
    /\ extract_stage = "returned"
    /\ \E n \in DOMAIN answers :
          /\ Cardinality(ScannedWith(n)) = 2
          /\ \E i \in ScannedWith(n), j \in ScannedWith(n) :
                /\ i < j
                /\ AnswerText(RemainderOfLine(TextLines[i])) # answers[n]
                /\ AnswerText(RemainderOfLine(TextLines[j])) = answers[n]
    /\ Cardinality(DOMAIN answers) = 2

\* x is a (not necessarily contiguous) subsequence of y
RECURSIVE IsSubsequence(_, _)
IsSubsequence(x, y) ==
    IF x = <<>> THEN TRUE
    ELSE IF y = <<>> THEN FALSE
    ELSE IF Head(x) = Head(y) THEN IsSubsequence(Tail(x), Tail(y))
    ELSE IsSubsequence(x, Tail(y))
\* the elements of a at the positions keep, in order
Pick(a, keep) == SelectSeq([i \in 1..Len(a) |-> <<i, a[i]>>], LAMBDA p : p[1] \in keep)
PickedTokens(a, keep) == [i \in 1..Len(Pick(a, keep)) |-> Pick(a, keep)[i][2]]
\* the length of a longest common subsequence of a and b, by enumeration
LongestCommon(a, b) ==
    LET lengths == {Cardinality(keep) : keep \in
                      {k \in SUBSET (1..Len(a)) : IsSubsequence(PickedTokens(a, k), b)}}
    IN CHOOSE l \in lengths : \A other \in lengths : other <= l

\* C25: _longest_common_subsequence(a, b) is the length of a longest sequence
\* that is a subsequence of both a and b; it is symmetric, equals len(a) when
\* a = b and never exceeds min(len(a), len(b))
C25_LcsIsLongestCommonSubsequence ==
    GradedBy("grade_list") =>
        LET a == StudentTokens
            b == CorrectTokens
            lcs == _longest_common_subsequence(a, b)
        IN /\ lcs = LongestCommon(a, b)
           /\ lcs = _longest_common_subsequence(b, a)
           /\ a = b => lcs = Len(a)
           /\ lcs <= Len(a) /\ lcs <= Len(b)
           /\ (/\ call.order_sensitive /\ call.partial_matching
               /\ a # b /\ StudentRaw # <<>> /\ CorrectRaw # <<>> /\ b # <<>>)
              => RatEq(result.score_percentage,
                       Rat(100 * LongestCommon(a, b), Len(b)))

\* two three-token lists that agree in no position and share a subsequence
\* of two tokens, scored 2/3
C25_Witness ==
    /\ OrderedCall /\ call.partial_matching
    /\ Len(StudentTokens) = 3 /\ Len(CorrectTokens) = 3
    /\ \A i \in 1..3 : StudentTokens[i] # CorrectTokens[i]
    /\ LongestCommon(StudentTokens, CorrectTokens) = 2
    /\ RatEq(result.score_percentage, Rat(200, 3))

\* s with every comma replaced by the text sep
RECURSIVE WithSeparator(_, _)
WithSeparator(s, sep) ==
    IF s = <<>> THEN <<>>
    ELSE (IF Head(s) = "," THEN sep ELSE <<Head(s)>>) \o WithSeparator(Tail(s), sep)
\* separators, alone, in a run and with spaces around them
Separators ==
    {<<";">>, <<"\t">>, <<"\n">>, <<",", ";">>, <<"\n", "\n">>,
     <<" ", ";", " ">>, <<" ", ",">>, <<"\t", " ">>}
\* s holds a bullet or a number with a dot, followed by whitespace
HasMarkerText(s) ==
    \E i \in 1..(Len(s) - 1) :
        /\ IsSpace(s[i + 1])
        /\ \/ s[i] \in {"-", "*"}
           \/ s[i] = "." /\ i > 1 /\ IsDigit(s[i - 1])
\* a finished grade_list call on a comma-separated student string
CommaListCall ==
    /\ GradedBy("grade_list") /\ call.student_answer.kind = "str"
    /\ \A i \in 1..Len(StudentRaw) : StudentRaw[i] \notin {";", "\t", "\n", " "}
    /\ ~HasMarkerText(StudentRaw)
PrimesList == <<"2", ",", " ", "3", ",", " ", "5", ",", " ", "7", ",", " ", "1", "1">>
PrimesSpellings ==
    {<<"2", ",", "3", ",", "5", ",", "7", ",", "1", "1">>,
     <<"2", ";", " ", "3", ";", " ", "5", ";", " ", "7", ";", " ", "1", "1">>,
     PrimesList}

\* C26: a string without bullet/number markers normalizes to the same tokens
\* whichever of comma, semicolon, tab or newline, alone or in a run and with
\* any spaces around, separates its items, and is graded the same;
\* "2,3,5,7,11", "2; 3; 5; 7; 11" and "2, 3, 5, 7, 11" grade as identical lists
C26_SeparatorsInterchangeable ==
    /\ CommaListCall =>
          \A sep \in Separators :
             LET other == WithSeparator(StudentRaw, sep)
             IN ~HasMarkerText(other) =>
                  /\ _normalize_list_items(other, call.case_sensitive) = StudentTokens
                  /\ grade_list([kind |-> "str", v |-> other], call.correct_answer,
                                call.order_sensitive, call.partial_matching,
                                call.case_sensitive) = result
    /\ (/\ GradedBy("grade_list")
        /\ StudentRaw \in PrimesSpellings /\ CorrectRaw \in PrimesSpellings)
       => result.is_correct /\ RatEq(result.score_percentage, Hundred)

\* "2; 3; 5; 7; 11" graded correct, in order, against "2, 3, 5, 7, 11"
C26_Witness ==
    /\ OrderedCall
    /\ CorrectRaw = PrimesList
    /\ StudentRaw \in PrimesSpellings /\ \E i \in 1..Len(StudentRaw) : StudentRaw[i] = ";"
    /\ result.is_correct

\* a finished order-insensitive grade_list call past the missing-answer test
UnorderedCall ==
    /\ GradedBy("grade_list") /\ ~call.order_sensitive
    /\ StudentRaw # <<>> /\ CorrectRaw # <<>>
Reversed(list) == [i \in 1..Len(list) |-> list[Len(list) + 1 - i]]
\* an answer with the same token set: its tokens reversed, then repeated
Rearranged(answer, tokens) ==
    IF tokens = <<>> THEN answer
    ELSE [kind |-> "list", v |-> Reversed(tokens) \o tokens]

\* C27: order-insensitive list grading depends only on the two token sets:
\* permuting or duplicating tokens changes neither is_correct nor the score,
\* equal sets give is_correct = TRUE with score 100, and matched_items is the
\* intersection of the two token sets in all three branches
C27_UnorderedDependsOnSets ==
    UnorderedCall =>
        /\ Returned(result)
        /\ ToSet(StudentTokens) = ToSet(CorrectTokens) =>
              result.is_correct /\ RatEq(result.score_percentage, Hundred)
        /\ result.matched_items = ToSet(StudentTokens) \cap ToSet(CorrectTokens)
        /\ Verdict(result) =
              Verdict(grade_list(Rearranged(call.student_answer, StudentTokens),
                                 Rearranged(call.correct_answer, CorrectTokens),
                                 FALSE, call.partial_matching, call.case_sensitive))

\* C28: grade_numerical never returns is_correct = TRUE when the cleaned
\* student answer does not parse as a number
C28_UnparsableNeverCorrect ==
    (GradedBy("grade_numerical") /\ ~StudentNumber.ok) =>
        Returned(result) /\ ~result.is_correct

\* C29: in range-sensitive grading with tolerance_percent > 0 every student
\* value with |student - correct| <= |correct| * tolerance_percent / 100 is
\* graded correct, for negative as for positive correct values and wherever
\* the value lies relative to [min, max]
C29_WithinToleranceIsCorrect ==
    (/\ GradedBy("grade_numerical") /\ call.range_sensitive
     /\ StudentNumber.ok /\ CorrectNumber.ok
     /\ ToleranceInForce > 0
     /\ RatLE(RatMul(RatAbs(RatSub(StudentNumber.v, CorrectNumber.v)), Hundred),
              RatMul(RatAbs(CorrectNumber.v), RatInt(ToleranceInForce))))
    => result.is_correct

\* the questions of the sheet graded so far that the marking scheme lists
GradedItems == {i \in 1..sheet_pos : sheet[i].q_id \in DOMAIN SheetScheme}
\* the sum of the function f over the finite set of positions
RECURSIVE SumOver(_, _)
SumOver(positions, f) ==
    IF positions = {} THEN Zero
    ELSE LET i == CHOOSE j \in positions : TRUE
         IN RatAdd(f[i], SumOver(positions \ {i}, f))
\* what the claim lets question i add: its marks when correct, the share
\* marks * score_percentage / 100 of a list answer that is not fully correct
ClaimedCredit(i) ==
    LET scheme == SheetScheme[sheet[i].q_id]
        graded == GradeByType(scheme, sheet[i].answer)
    IN IF ~Returned(graded) THEN Zero
       ELSE IF graded.is_correct THEN RatInt(scheme.marks)
       ELSE IF scheme.grading_type = "list"
       THEN Rat(scheme.marks * graded.score_percentage.n, 100 * graded.score_percentage.d)
       ELSE Zero
ListedMarks(i) == RatInt(SheetScheme[sheet[i].q_id].marks)

\* C30: while grade_submission runs, 0 <= total_score <= max_score; a question
\* absent from the marking scheme adds to neither, a correct answer adds its
\* marks, and a list answer that is not fully correct adds
\* marks * score_percentage / 100, never more than its marks
C30_TotalWithinMax ==
    sheet_stage # "none" =>
        /\ RatLE(Zero, total_score)
        /\ RatLE(total_score, RatInt(max_score))
        /\ RatEq(total_score, SumOver(GradedItems, [i \in GradedItems |-> ClaimedCredit(i)]))
        /\ RatEq(RatInt(max_score), SumOver(GradedItems, [i \in GradedItems |-> ListedMarks(i)]))
        /\ \A i \in GradedItems : RatLE(ClaimedCredit(i), ListedMarks(i))

\* a returned sheet with a question outside the scheme and a half-credit list
\* answer, its total strictly between 0 and max_score and not a multiple of
\* the marks
C30_Witness ==
    /\ sheet_stage = "returned"
    /\ \E i \in 1..Len(sheet) : sheet[i].q_id \notin DOMAIN SheetScheme
    /\ \E i \in GradedItems : RatEq(ClaimedCredit(i), RatInt(5))
    /\ RatLT(Zero, total_score) /\ RatLT(total_score, RatInt(max_score))
    /\ RatEq(total_score, RatInt(15))
====
